---- MODULE Spec2Model ----
(***************************************************************************)
(* Convolutional-code transmission simulator (main.py): str_to_bits,       *)
(* encode, transmit and decode, together with the Viterbi decoder that     *)
(* decode calls (graph.viterbi).                                           *)
(*                                                                         *)
(* Characters and bytes are their code points, bit strings are sequences   *)
(* over {0,1}, hexadecimal strings are sequences over 0..15, and samples   *)
(* are integers.                                                           *)
(***************************************************************************)
EXTENDS Integers, Sequences, FiniteSets, TLC

VARIABLES
    pc,           \* position of the running call
    err,          \* exception raised, or "None"
    message,      \* encode: the message argument
    message_bin,  \* encode: str_to_bits(message)
    pos,          \* encode: number of bits the for loop has consumed
    window,       \* encode: the sliding window
    code,         \* encode: the codeword built so far
    signal,       \* transmit: the signal argument
    var,          \* transmit: the var argument, <<v>>, or <<>> for None
    used_var,     \* transmit: var after "var = var or VARIANCE"
    received,     \* transmit: the returned signal + noise
    word,         \* decode: the word argument
    t,            \* viterbi: time steps of the forward pass completed
    metric,       \* viterbi: path metric table, metric[t+1][state]
    backptr,      \* viterbi: back-pointer table, backptr[t+1][state]
    decoded_bin,  \* decode: viterbi(word)[1], once pc = "decoded"
    decoded       \* decode: the returned message, once pc = "decoded"

vars == <<pc, err, message, message_bin, pos, window, code, signal, var,
          used_var, received, word, t, metric, backptr, decoded_bin, decoded>>

None == "None"

-----------------------------------------------------------------------------
(* Bounds of the model *)

MaxMsgLen == 2      \* longest message, in characters
MaxSignal == 2      \* longest signal given to transmit, in samples
MaxVar == 2         \* largest variance given to transmit
MaxNoise == 1       \* largest magnitude of one drawn noise sample
MaxBits == 4        \* largest bit count of a word given to viterbi directly

\* Characters of the modelled messages: NUL, 'A', DEL and the non-ASCII e-acute.
Chars == {0, 65, 127, 233}

\* 4-sample blocks the words given to viterbi directly are made of: the two
\* noiseless blocks out of the initial state, an erased block and two noisy ones.
SampleBlocks ==
    { <<1, 1, 1, 1>>, <<-1, -1, -1, -1>>, <<0, 0, 0, 0>>,
      <<1, -1, 0, 2>>, <<-2, 1, 1, 0>> }

-----------------------------------------------------------------------------
(* Constants of main.py *)

MEAN == 0
VARIANCE == 1
AsciiMax == 127           \* ENCODING = 'ascii'
EncodeReplacement == 63   \* '?', what errors='replace' encodes
DecodeReplacement == 65533 \* U+FFFD, what errors='replace' decodes

-----------------------------------------------------------------------------
(* Sequence helpers *)

Bit == {0, 1}
Sym == {-1, 1}

SeqsUpTo(S, n) == UNION {[1..m -> S] : m \in 0..n}

Front(s) == SubSeq(s, 1, Len(s) - 1)

Last(s) == s[Len(s)]

Zeros(n) == [j \in 1..n |-> 0]

RECURSIVE Flatten(_)
Flatten(ss) == IF ss = <<>> THEN <<>> ELSE ss[1] \o Flatten(Tail(ss))

Prefixes(s) == {SubSeq(s, 1, m) : m \in 0..Len(s)}

-----------------------------------------------------------------------------
(* str_to_bits *)

\* str_.encode(encoding=ENCODING, errors='replace')
StrEncode(str_) ==
    [j \in 1..Len(str_) |->
        IF str_[j] <= AsciiMax THEN str_[j] ELSE EncodeReplacement]

\* int(str_bytes.hex(), 16) for a non-empty byte string
RECURSIVE IntOfBytes(_)
IntOfBytes(bs) ==
    IF bs = <<>> THEN 0 ELSE IntOfBytes(Front(bs)) * 256 + Last(bs)

\* bin(n).lstrip('0b'): the binary digits of n without leading zeros,
\* the empty string for 0
RECURSIVE BinDigits(_)
BinDigits(n) ==
    IF n = 0 THEN <<>> ELSE Append(BinDigits(n \div 2), n % 2)

\* while len(str_bin) < 8*len(str_): str_bin = '0' + str_bin
PadZeros(str_bin, n) ==
    IF Len(str_bin) >= n THEN str_bin
    ELSE Zeros(n - Len(str_bin)) \o str_bin

\* str_to_bits of a non-empty string (int('', 16) raises ValueError)
str_to_bits(str_) ==
    PadZeros(BinDigits(IntOfBytes(StrEncode(str_))), 8 * Len(str_))

-----------------------------------------------------------------------------
(* encode *)

\* symbol = (2*bit-1)
SymbolUnmapped(bit) == bit

SymbolInverted(bit) == 1 - 2 * bit

Symbol(bit) == 2 * bit - 1

\* the list given to code.extend
EncOutputsNewest(w, symbol) ==
    << w[1] * w[2] * symbol,
       w[2] * w[3] * symbol,
       w[1] * w[3] * symbol,
       w[3] * symbol >>

EncOutputs(w, symbol) ==
    << w[1] * w[2] * symbol,
       w[2] * w[3] * symbol,
       w[1] * w[3] * symbol,
       w[1] * symbol >>

\* window.pop(0); window.append(symbol)
EncShiftPopLast(w, symbol) == Append(Front(w), symbol)

EncShiftNoPop(w, symbol) == Append(w, symbol)

EncShift(w, symbol) == Append(Tail(w), symbol)

InitialWindow == <<1, 1, 1>>

\* the whole loop of encode over a bit string, from window w
RECURSIVE EncodeFrom(_, _)
EncodeFrom(w, bits) ==
    IF bits = <<>> THEN <<>>
    ELSE EncOutputs(w, Symbol(bits[1]))
         \o EncodeFrom(EncShift(w, Symbol(bits[1])), Tail(bits))

EncodeBits(bits) == EncodeFrom(InitialWindow, bits)

-----------------------------------------------------------------------------
(* transmit *)

\* var = var or VARIANCE
EffectiveVar(v) == IF v = <<>> \/ v[1] = 0 THEN VARIANCE ELSE v[1]

\* values one sample of rng.normal(MEAN, sqrt(v), ...) is drawn from:
\* exactly MEAN at scale 0, otherwise any value (here within MaxNoise of MEAN)
NoiseSamples(v) ==
    IF v = 0 THEN {MEAN} ELSE (MEAN - MaxNoise)..(MEAN + MaxNoise)

-----------------------------------------------------------------------------
(* graph.viterbi: the trellis and the decoder *)

\* the 8 encoder states, oldest symbol first
States == [1..3 -> Sym]

initialState == <<1, 1, 1>>

bitToSymbol(bit) == 2 * bit - 1

symbolToBit(symbol) == IF symbol >= 0 THEN 1 ELSE 0

\* state <-> integer 0..7
StateIndex(state) ==
    4 * symbolToBit(state[1]) + 2 * symbolToBit(state[2]) + symbolToBit(state[3])

transition(state, inputBit) ==
    LET a == state[1]
        b == state[2]
        c == state[3]
        s == bitToSymbol(inputBit)
    IN  [outputs   |-> <<a * b * s, b * c * s, a * c * s, a * s>>,
         nextState |-> <<b, c, s>>]

\* the metric of a state no path reaches
INF == -1

\* precondition of viterbi: a positive multiple of 4
LengthOkAllowEmpty(samples) == Len(samples) % 4 = 0

LengthOk(samples) == Len(samples) > 0 /\ Len(samples) % 4 = 0

\* sum of squared differences between two sample sequences of equal length
RECURSIVE SquaredDistance(_, _)
SquaredDistance(x, y) ==
    IF x = <<>> THEN 0
    ELSE (x[1] - y[1]) * (x[1] - y[1]) + SquaredDistance(Tail(x), Tail(y))

\* the 4 samples of time step step (1-based)
Block(samples, step) == SubSeq(samples, 4 * (step - 1) + 1, 4 * step)

BranchMetric(outputs, samples, step) ==
    SquaredDistance(outputs, Block(samples, step))

\* metric[0]
InitialRow == [s \in States |-> IF s = initialState THEN 0 ELSE INF]

InitialBack == [s \in States |-> None]

\* the (predecessor, bit) pairs with finite metric that reach next
Candidates(row, next) ==
    {c \in States \X Bit :
        row[c[1]] # INF /\ transition(c[1], c[2]).nextState = next}

CandidateMetric(row, c, samples, step) ==
    row[c[1]] + BranchMetric(transition(c[1], c[2]).outputs, samples, step)

\* iteration order of the candidates: predecessors by index, bit 0 before 1
Rank(c) == 2 * StateIndex(c[1]) + c[2]

\* the surviving candidate of next: minimum metric, first in iteration order
\* among exact ties
Survivor(row, next, samples, step) ==
    LET cs == Candidates(row, next)
        m(c) == CandidateMetric(row, c, samples, step)
    IN  CHOOSE c \in cs : \A d \in cs :
            m(c) < m(d) \/ (m(c) = m(d) /\ Rank(c) <= Rank(d))

\* one time step of the forward pass: metric[step] and its back-pointers
ForwardMetric(row, samples, step) ==
    [next \in States |->
        IF Candidates(row, next) = {} THEN INF
        ELSE CandidateMetric(row, Survivor(row, next, samples, step),
                             samples, step)]

ForwardBack(row, samples, step) ==
    [next \in States |->
        IF Candidates(row, next) = {} THEN None
        ELSE Survivor(row, next, samples, step)]

\* termination: the state of globally minimum metric, lowest index on ties
TerminalState(row) ==
    CHOOSE s \in States :
        /\ row[s] # INF
        /\ \A u \in States : row[u] # INF =>
              \/ row[s] < row[u]
              \/ (row[s] = row[u] /\ StateIndex(s) <= StateIndex(u))

\* traceback from state s at time step, in original bit order
RECURSIVE Traceback(_, _, _)
Traceback(back, step, s) ==
    IF step = 0 THEN <<>>
    ELSE Append(Traceback(back, step - 1, back[step + 1][s][1]),
                back[step + 1][s][2])

-----------------------------------------------------------------------------
(* decode: message bits to string *)

\* int(message_bin, 2)
RECURSIVE IntOfBits(_)
IntOfBits(bits) ==
    IF bits = <<>> THEN 0 ELSE IntOfBits(Front(bits)) * 2 + Last(bits)

\* hex(n).lstrip('0x'): the hexadecimal digits of n without leading zeros,
\* the empty string for 0
RECURSIVE HexDigits(_)
HexDigits(n) ==
    IF n = 0 THEN <<>> ELSE Append(HexDigits(n \div 16), n % 16)

\* if len(message_hex) % 2 != 0: message_hex = '0' + message_hex
PadHex(message_hex) ==
    IF Len(message_hex) % 2 # 0 THEN <<0>> \o message_hex ELSE message_hex

\* bytearray.fromhex(message_hex)
FromHex(message_hex) ==
    [j \in 1..(Len(message_hex) \div 2) |->
        16 * message_hex[2 * j - 1] + message_hex[2 * j]]

\* .decode(encoding=ENCODING, errors='replace')
BytesDecode(bs) ==
    [j \in 1..Len(bs) |->
        IF bs[j] <= AsciiMax THEN bs[j] ELSE DecodeReplacement]

\* lines 117-121 of decode
BitsToMessage(bits) ==
    BytesDecode(FromHex(PadHex(HexDigits(IntOfBits(bits)))))

-----------------------------------------------------------------------------
(* Actions *)

\* encode, up to the start of the loop
EncodeBegin ==
    /\ pc = "encode"
    /\ IF message = <<>>
       THEN /\ pc' = "error"
            /\ err' = "ValueError"
            /\ UNCHANGED <<message_bin, pos, window, code>>
       ELSE /\ message_bin' = str_to_bits(message)
            /\ code' = <<>>
            /\ window' = InitialWindow
            /\ pos' = 0
            /\ pc' = "encoding"
            /\ err' = err
    /\ UNCHANGED <<message, signal, var, used_var, received, word, t, metric,
                   backptr, decoded_bin, decoded>>

\* one iteration of the loop of encode
EncodeStep ==
    /\ pc = "encoding"
    /\ pos < Len(message_bin)
    /\ LET bit == message_bin[pos + 1]
           symbol == Symbol(bit)
       IN  /\ code' = code \o EncOutputs(window, symbol)
           /\ window' = EncShift(window, symbol)
    /\ pos' = pos + 1
    /\ UNCHANGED <<pc, err, message, message_bin, signal, var, used_var,
                   received, word, t, metric, backptr, decoded_bin, decoded>>

\* return np.array(code)
EncodeReturn ==
    /\ pc = "encoding"
    /\ pos = Len(message_bin)
    /\ pc' = "encoded"
    /\ UNCHANGED <<err, message, message_bin, pos, window, code, signal, var,
                   used_var, received, word, t, metric, backptr, decoded_bin,
                   decoded>>

\* decode(code): the codeword is decoded as it is, no noise added
DecodeCall ==
    /\ pc = "encoded"
    /\ word' = code
    /\ pc' = "viterbi"
    /\ UNCHANGED <<err, message, message_bin, pos, window, code, signal, var,
                   used_var, received, t, metric, backptr, decoded_bin,
                   decoded>>

\* viterbi: length check and metric[0]
ViterbiBegin ==
    /\ pc = "viterbi"
    /\ IF LengthOk(word)
       THEN /\ metric' = <<InitialRow>>
            /\ backptr' = <<InitialBack>>
            /\ t' = 0
            /\ pc' = "forward"
            /\ err' = err
       ELSE /\ pc' = "error"
            /\ err' = "LengthError"
            /\ UNCHANGED <<metric, backptr, t>>
    /\ UNCHANGED <<message, message_bin, pos, window, code, signal, var,
                   used_var, received, word, decoded_bin, decoded>>

\* viterbi: one time step of the forward pass
ViterbiStep ==
    /\ pc = "forward"
    /\ 4 * t < Len(word)
    /\ metric' = Append(metric, ForwardMetric(metric[t + 1], word, t + 1))
    /\ backptr' = Append(backptr, ForwardBack(metric[t + 1], word, t + 1))
    /\ t' = t + 1
    /\ UNCHANGED <<pc, err, message, message_bin, pos, window, code, signal,
                   var, used_var, received, word, decoded_bin, decoded>>

\* viterbi: termination and traceback
ViterbiReturn ==
    /\ pc = "forward"
    /\ 4 * t = Len(word)
    /\ decoded_bin' = Traceback(backptr, t, TerminalState(metric[t + 1]))
    /\ pc' = "traced"
    /\ UNCHANGED <<err, message, message_bin, pos, window, code, signal, var,
                   used_var, received, word, t, metric, backptr, decoded>>

\* decode: message bits to string, return
DecodeReturn ==
    /\ pc = "traced"
    /\ decoded' = BitsToMessage(decoded_bin)
    /\ pc' = "decoded"
    /\ UNCHANGED <<err, message, message_bin, pos, window, code, signal, var,
                   used_var, received, word, t, metric, backptr, decoded_bin>>

\* transmit
Transmit ==
    /\ pc = "transmit"
    /\ used_var' = EffectiveVar(var)
    /\ \E noise \in [1..Len(signal) -> NoiseSamples(used_var')] :
          received' = [j \in 1..Len(signal) |-> signal[j] + noise[j]]
    /\ pc' = "transmitted"
    /\ UNCHANGED <<err, message, message_bin, pos, window, code, signal, var,
                   word, t, metric, backptr, decoded_bin, decoded>>

-----------------------------------------------------------------------------
(* Specifications *)

Idle ==
    /\ err = None
    /\ message_bin = <<>>
    /\ pos = 0
    /\ window = <<>>
    /\ code = <<>>
    /\ used_var = 0
    /\ received = <<>>
    /\ t = 0
    /\ metric = <<>>
    /\ backptr = <<>>
    /\ decoded_bin = <<>>
    /\ decoded = <<>>

Messages == SeqsUpTo(Chars, MaxMsgLen)

\* encode a message, then decode the codeword without noise
Init ==
    /\ pc = "encode"
    /\ message \in Messages
    /\ signal = <<>>
    /\ var = <<>>
    /\ word = <<>>
    /\ Idle

Next ==
    \/ EncodeBegin
    \/ EncodeStep
    \/ EncodeReturn
    \/ DecodeCall
    \/ ViterbiBegin
    \/ ViterbiStep
    \/ ViterbiReturn
    \/ DecodeReturn

Spec == Init /\ [][Next]_vars

\* transmit a signal
InitTransmit ==
    /\ pc = "transmit"
    /\ message = <<>>
    /\ signal \in SeqsUpTo(Sym, MaxSignal)
    /\ var \in {<<>>} \cup {<<v>> : v \in 0..MaxVar}
    /\ word = <<>>
    /\ Idle

NextTransmit == Transmit

SpecTransmit == InitTransmit /\ [][NextTransmit]_vars

\* words of up to MaxBits blocks, and what is left of them when cut short
Words == UNION {Prefixes(Flatten(bs)) : bs \in SeqsUpTo(SampleBlocks, MaxBits)}

\* decode an arbitrary word
InitViterbi ==
    /\ pc = "viterbi"
    /\ message = <<>>
    /\ signal = <<>>
    /\ var = <<>>
    /\ word \in Words
    /\ Idle

NextViterbi ==
    \/ ViterbiBegin
    \/ ViterbiStep
    \/ ViterbiReturn
    \/ DecodeReturn

SpecViterbi == InitViterbi /\ [][NextViterbi]_vars

-----------------------------------------------------------------------------
(* Properties *)

Min(S) == CHOOSE m \in S : \A x \in S : m <= x

\* the window of encode after a bit string
RECURSIVE FinalWindowFrom(_, _)
FinalWindowFrom(w, bits) ==
    IF bits = <<>> THEN w
    ELSE FinalWindowFrom(EncShift(w, Symbol(bits[1])), Tail(bits))

FinalWindow(bits) == FinalWindowFrom(InitialWindow, bits)

LetterA == <<0, 1, 0, 0, 0, 0, 0, 1>>

\* C1: decoding the exact codeword that encode produced, no noise added,
\* returns the encoded bits, bit for bit and with the same length; the bits
\* 01000001 encode to 32 samples that decode back to 01000001.
C1_ZeroNoiseRoundTrip ==
    pc = "decoded" =>
        /\ word = code
        /\ Len(decoded_bin) = Len(message_bin)
        /\ decoded_bin = message_bin
        /\ message = <<65>> =>
              /\ message_bin = LetterA
              /\ Len(code) = 32
              /\ decoded_bin = LetterA

C1_Witness ==
    /\ pc = "decoded"
    /\ message = <<65>>
    /\ Len(word) = 32
    /\ decoded_bin = LetterA

\* C2: encode succeeds on every input and returns 4 samples per input bit,
\* the empty input included (an empty codeword, no failure).
C2_CodewordLengthLaw ==
    /\ ~(pc = "error" /\ err = "ValueError")
    /\ pc = "encoded" =>
          /\ Len(message_bin) = 8 * Len(message)
          /\ Len(code) = 4 * Len(message_bin)

\* C3: for a word of 4n samples, n >= 1, decode returns n bits whose
\* codeword is at least as close to the word, in squared distance, as the
\* codeword of every one of the 2^n bit strings of length n.
C3_Optimality ==
    pc = "decoded" =>
        LET n == Len(word) \div 4
        IN  /\ n >= 1
            /\ Len(decoded_bin) = n
            /\ \A B \in [1..n -> Bit] :
                  SquaredDistance(EncodeBits(decoded_bin), word)
                      <= SquaredDistance(EncodeBits(B), word)

C3_Witness ==
    /\ pc = "decoded"
    /\ Len(word) = 16
    /\ SquaredDistance(EncodeBits(decoded_bin), word) > 0
    /\ \E B \in [1..4 -> Bit] :
          SquaredDistance(EncodeBits(B), word)
              > SquaredDistance(EncodeBits(decoded_bin), word)

\* C4: every step of the encoder, with window (a, b, c) and s = 2*bit - 1,
\* appends a*b*s, b*c*s, a*c*s, a*s, computed from the window before the
\* shift, and leaves the window (b, c, s); the first step starts from
\* (+1, +1, +1).
C4_TransitionRule ==
    /\ [](pc = "encoding" /\ pos = 0 => window = <<1, 1, 1>> /\ code = <<>>)
    /\ [][pc = "encoding" /\ pos' = pos + 1 =>
            LET a == window[1]
                b == window[2]
                c == window[3]
                s == 2 * message_bin[pos + 1] - 1
            IN  /\ code' = code \o <<a * b * s, b * c * s, a * c * s, a * s>>
                /\ window' = <<b, c, s>>]_vars

C4_Witness ==
    /\ pc = "encoding"
    /\ pos = 3
    /\ window = <<-1, 1, -1>>
    /\ code = <<-1, -1, -1, -1,  1, -1, -1, 1,  1, 1, -1, -1>>

\* C5: for each of the 8 states and both bits the transition is defined,
\* its next state is one of the 8 states and its 4 outputs are -1 or +1; so
\* the window always has 3 elements in {-1,+1} and every sample of the
\* codeword is -1 or +1.
C5_TransitionClosure ==
    /\ \A st \in States : \A bit \in Bit :
          /\ EncShift(st, Symbol(bit)) \in States
          /\ EncOutputs(st, Symbol(bit)) \in [1..4 -> Sym]
    /\ pc \in {"encoding", "encoded"} =>
          /\ Len(window) = 3
          /\ \A j \in 1..Len(window) : window[j] \in Sym
          /\ \A j \in 1..Len(code) : code[j] \in Sym

C5_Witness ==
    /\ pc = "encoding"
    /\ pos = 11
    /\ window = <<-1, 1, 1>>
    /\ Len(code) = 44

\* C6: decode of a word whose length is not a positive multiple of 4 ends
\* in the length error and returns nothing; the word is neither truncated
\* nor padded and no metric is computed from it.
C6_LengthPrecondition ==
    (pc # "viterbi" /\ (Len(word) = 0 \/ Len(word) % 4 # 0)) =>
        /\ pc = "error"
        /\ err = "LengthError"
        /\ metric = <<>>
        /\ decoded_bin = <<>>
        /\ decoded = <<>>

C6_Witness ==
    /\ pc = "error"
    /\ err = "LengthError"
    /\ Len(word) = 7

\* C7: transmit uses exactly the variance the caller gave, 0 included (then
\* every received sample equals the signal's), uses 1 only when none was
\* given, and returns as many samples as the signal has.
C7_VarianceSelection ==
    pc = "transmitted" =>
        /\ used_var = (IF var = <<>> THEN VARIANCE ELSE var[1])
        /\ Len(received) = Len(signal)
        /\ var = <<0>> => received = signal

\* C8: after time step t of the forward pass, the metric stored for each
\* state is the least squared distance between the first 4t samples and the
\* codeword of a t-bit string that drives the encoder from (+1,+1,+1) to that
\* state, infinity when there is none (at t = 0: 0 for the initial state,
\* infinity for the others), and the back-pointers from that state trace
\* such a bit string of that distance.
C8_PathMetric ==
    pc \in {"forward", "traced", "decoded"} =>
        /\ Len(metric) = t + 1
        /\ Len(backptr) = t + 1
        /\ \A s \in States :
              LET paths == {B \in [1..t -> Bit] : FinalWindow(B) = s}
                  head == SubSeq(word, 1, 4 * t)
                  dist(B) == SquaredDistance(EncodeBits(B), head)
                  traced == Traceback(backptr, t, s)
              IN  IF paths = {} THEN metric[t + 1][s] = INF
                  ELSE /\ metric[t + 1][s] = Min({dist(B) : B \in paths})
                       /\ traced \in paths
                       /\ dist(traced) = metric[t + 1][s]

C8_Witness ==
    /\ pc = "forward"
    /\ t = 4
    /\ \A s \in States : metric[5][s] > 0
    /\ \E s \in States : \E u \in States : metric[5][s] # metric[5][u]

\* C9: after the loop of encode has consumed k bits, the window is the
\* symbols of the last three consumed bits, oldest first, with +1 on the left
\* while k < 3, and the codeword is that of those k bits in input order; each
\* step's outputs tell the two bits apart, and messages of equal length with
\* different bits have different codewords.
C9_SlidingWindow ==
    pc \in {"encoding", "encoded"} =>
        LET history == <<1, 1, 1>>
                       \o [j \in 1..pos |-> 2 * message_bin[j] - 1]
        IN  /\ window = SubSeq(history, pos + 1, pos + 3)
            /\ Len(code) = 4 * pos
            /\ code = EncodeBits(SubSeq(message_bin, 1, pos))
            /\ EncOutputs(window, Symbol(0)) # EncOutputs(window, Symbol(1))
            /\ pc = "encoded" =>
                  \A other \in Messages \ {<<>>} :
                      (/\ Len(str_to_bits(other)) = Len(message_bin)
                       /\ str_to_bits(other) # message_bin)
                      => EncodeBits(str_to_bits(other)) # code

C9_Witness ==
    /\ pc = "encoding"
    /\ pos = 2
    /\ message_bin[1] = 0
    /\ message_bin[2] = 1
    /\ window = <<1, -1, 1>>

\* the 8 bits of a character code, most significant first
CharBits(ch) == [j \in 1..8 |-> (ch \div (2 ^ (8 - j))) % 2]

\* C10: for a non-empty ASCII message str_to_bits yields 8 bits per
\* character, each character's code most significant bit first, and decode
\* of the noiseless codeword returns the message, character for character,
\* also when it begins with NUL characters or is made of them.
C10_TextRoundTrip ==
    (pc \notin {"encode", "error"} /\ \A j \in 1..Len(message) : message[j] <= AsciiMax) =>
        /\ Len(message_bin) = 8 * Len(message)
        /\ \A j \in 1..Len(message) :
              SubSeq(message_bin, 8 * j - 7, 8 * j) = CharBits(message[j])
        /\ pc = "decoded" =>
              /\ Len(decoded) = Len(message)
              /\ decoded = message

====
